---------------------------- MODULE Spec2Model ----------------------------
(***************************************************************************)
(* A model of weread-mcp's core: WeReadClient (src/weread/client.py), the  *)
(* session client that queries the upstream reading service, and its       *)
(* static identifier codec calculate_book_str_id / transform_id; and of    *)
(* the way its two front ends (src/weread/api/routes.py, the REST routes,  *)
(* and src/weread/mcp/server.py, the tools) get their client, with the     *)
(* tools' format_highlights (src/weread/mcp/utils.py).                     *)
(*                                                                         *)
(* Strings are sequences of Unicode code points (48 is "0", 97 is "a",     *)
(* 103 is "g", 10 is a newline, 45 is "-").  A JSON object is a function   *)
(* from its keys to its values, so a missing field is a key outside the    *)
(* DOMAIN.  An operation's outcome is a record with a field "raised"       *)
(* (the operation raised exc) or a field "value" (what it returned).       *)
(***************************************************************************)
EXTENDS Integers, Sequences, FiniteSets, TLC

VARIABLES
    \* ---- the session client and the upstream it talks to
    upstream,         \* the response the service gives to the next request
    client,           \* the WeReadClient instance, or NoClient
    made,             \* the outcome of the last construction attempt
    call,             \* the last query operation and its outcome
    \* ---- one run of calculate_book_str_id
    book_id,          \* its argument
    pc,               \* where the run stands
    digest,           \* md5(book_id).hexdigest()
    code,             \* transform_id's mode code
    transformed_ids,  \* transform_id's segments
    i,                \* the loop index of lines 209-217
    result,           \* the string built so far
    \* ---- the front ends (api/routes.py, mcp/server.py)
    DEFAULT_COOKIE,   \* the WEREAD_COOKIE of the environment, "" when unset
    client_cache,     \* mcp/server.py's cache: cookie -> WeReadClient
    constructed,      \* how many times WeReadClient(...) was called
    reply,            \* what the last request to a front end was answered
    callers,          \* the get_weread_client calls under way, step by step
    \* ---- one call of format_highlights (mcp/utils.py)
    bookmarks,        \* its list of bookmarks
    max_highlights,   \* its limit: None, or an integer
    formatted         \* what it returned

clientVars == <<upstream, client, made, call>>
codecVars  == <<book_id, pc, digest, code, transformed_ids, i, result>>
frontVars  == <<DEFAULT_COOKIE, client_cache, constructed, reply, callers>>
formatVars == <<bookmarks, max_highlights, formatted>>
vars       == <<upstream, client, made, call,
                book_id, pc, digest, code, transformed_ids, i, result,
                DEFAULT_COOKIE, client_cache, constructed, reply, callers,
                bookmarks, max_highlights, formatted>>

-----------------------------------------------------------------------------
(* Bounds of the model.                                                    *)

\* identifiers over Alphabet are enumerated up to this length
MaxShort == 2
\* digit identifiers are the prefixes of DigitStream up to this length
MaxDigits == 27
\* the longest run of one repeated character used as a generic identifier
MaxRun == 128
\* the longest list (books, bookmarks, reviews, chapters) in a payload
MaxItems == 2

-----------------------------------------------------------------------------
(* Python's string and integer primitives.                                 *)

Min(a, b) == IF a < b THEN a ELSE b

\* c is an ASCII decimal digit "0".."9"
IsAsciiDigit(c) == c \in 48..57

\* c is a decimal digit for a str pattern's \d and for int(): Unicode
\* category Nd.  The blocks listed are ASCII, ARABIC-INDIC and FULLWIDTH.
IsDigit(c) == \/ c \in 48..57
              \/ c \in 1632..1641
              \/ c \in 65296..65305

DigitValue(c) == IF c \in 48..57 THEN c - 48
                 ELSE IF c \in 1632..1641 THEN c - 1632
                 ELSE c - 65296

\* str.isspace() for the characters int() strips
IsSpace(c) == c \in {9, 10, 11, 12, 13, 32}

RECURSIVE LStrip(_)
LStrip(s) == IF s # <<>> /\ IsSpace(Head(s)) THEN LStrip(Tail(s)) ELSE s

RECURSIVE RStrip(_)
RStrip(s) == IF s # <<>> /\ IsSpace(s[Len(s)])
             THEN RStrip(SubSeq(s, 1, Len(s) - 1)) ELSE s

Strip(s) == RStrip(LStrip(s))

\* the digits of a stripped literal, after an optional sign
Unsigned(s) == IF s # <<>> /\ Head(s) \in {43, 45} THEN Tail(s) ELSE s

\* int(s) returns (rather than raising ValueError)
IntParses(s) ==
    LET d == Unsigned(Strip(s))
    IN  d # <<>> /\ \A k \in 1..Len(d) : IsDigit(d[k])

RECURSIVE DigitsValue(_)
DigitsValue(d) == IF d = <<>> THEN 0
                  ELSE 10 * DigitsValue(SubSeq(d, 1, Len(d) - 1))
                       + DigitValue(d[Len(d)])

\* the value of int(s), for s with IntParses(s)
IntOf(s) ==
    LET t == Strip(s)
        v == DigitsValue(Unsigned(t))
    IN  IF t # <<>> /\ Head(t) = 45 THEN 0 - v ELSE v

\* one lowercase hexadecimal digit
HexDigit(d) == IF d < 10 THEN 48 + d ELSE 87 + d

\* format(n, "x") for n >= 0
RECURSIVE Hex(_)
Hex(n) == IF n < 16 THEN <<HexDigit(n)>>
          ELSE Hex(n \div 16) \o <<HexDigit(n % 16)>>

\* the concatenation of parts[lo], ..., parts[hi], halving the range so that
\* long strings do not nest deeply
RECURSIVE Flat(_, _, _)
Flat(parts, lo, hi) ==
    IF lo > hi THEN <<>>
    ELSE IF lo = hi THEN parts[lo]
    ELSE LET mid == (lo + hi) \div 2
         IN  Flat(parts, lo, mid) \o Flat(parts, mid + 1, hi)

\* the sum of terms[lo], ..., terms[hi]
RECURSIVE Sum(_, _, _)
Sum(terms, lo, hi) ==
    IF lo > hi THEN 0
    ELSE IF lo = hi THEN terms[lo]
    ELSE LET mid == (lo + hi) \div 2
         IN  Sum(terms, lo, mid) + Sum(terms, mid + 1, hi)

\* one code point of the basic multilingual plane in UTF-8
Utf8Char(c) ==
    IF c < 128 THEN <<c>>
    ELSE IF c < 2048 THEN <<192 + (c \div 64), 128 + (c % 64)>>
    ELSE <<224 + (c \div 4096), 128 + ((c \div 64) % 64), 128 + (c % 64)>>

\* s.encode("utf-8")
Utf8(s) == Flat([k \in 1..Len(s) |-> Utf8Char(s[k])], 1, Len(s))

\* hashlib.md5(bytes).hexdigest(): 32 lowercase hex digits that depend on
\* every byte and on its position.  MD5 itself is the standard library's;
\* this stands in for it with a function of the same shape (a weighted
\* checksum spread over the 32 positions), so that the places where the
\* codec reads the digest can be told apart.
Checksum(bytes) ==
    (Sum([k \in 1..Len(bytes) |-> bytes[k] * (1 + ((k * k) % 251))],
         1, Len(bytes))
     + 7 * Len(bytes) + 1) % 65521

Md5Hex(bytes) ==
    LET h == Checksum(bytes)
    IN  [k \in 1..32 |-> HexDigit(((h \div k) + h * k + 3 * k) % 16)]

\* re.match("^\\d*$", s): every character is a \d, where $ also matches
\* just before a newline that ends the string
MatchesDigits(s) ==
    \/ \A k \in 1..Len(s) : IsDigit(s[k])
    \/ /\ s # <<>>
       /\ s[Len(s)] = 10
       /\ \A k \in 1..(Len(s) - 1) : IsDigit(s[k])

-----------------------------------------------------------------------------
(* transform_id, lines 227-249.                                            *)

ChunkSize == 9

\* Chunk with the slice one character short
ChunkShort(id, at) == SubSeq(id, at + 1, Min(at + ChunkSize - 1, Len(id)))

\* book_id[i : min(i + 9, id_length)], i counted from 0
Chunk(id, at) == SubSeq(id, at + 1, Min(at + ChunkSize, Len(id)))

\* the loop of lines 242-243 from offset at on: the segments appended, or
\* ValueError as soon as int() rejects a chunk
RECURSIVE NumericSegments(_, _)
NumericSegments(id, at) ==
    IF at >= Len(id) THEN [ary |-> <<>>]
    ELSE IF ~IntParses(Chunk(id, at)) THEN [raised |-> "ValueError"]
    ELSE LET rest == NumericSegments(id, at + ChunkSize)
         IN  IF "raised" \in DOMAIN rest THEN rest
             ELSE [ary |-> <<Hex(IntOf(Chunk(id, at)))>> \o rest.ary]

\* the loop of lines 246-248: the hex of every character, concatenated
GenericSegment(id) == Flat([k \in 1..Len(id) |-> Hex(id[k])], 1, Len(id))

transform_id(id) ==
    IF MatchesDigits(id)
    THEN LET segs == NumericSegments(id, 0)
         IN  IF "raised" \in DOMAIN segs THEN segs
             ELSE [value |-> [code |-> <<51>>, ids |-> segs.ary]]
    ELSE [value |-> [code |-> <<52>>, ids |-> <<GenericSegment(id)>>]]

-----------------------------------------------------------------------------
(* calculate_book_str_id, lines 191-225, one action per statement group.   *)

\* LengthPrefix without the padding of lines 211-212
LengthPrefixUnpadded(seg) == Hex(Len(seg))

\* lines 210-212: the length of a segment in hex, a "0" put before a single
\* digit
LengthPrefix(seg) ==
    LET hex_length_str == Hex(Len(seg))
    IN  IF Len(hex_length_str) = 1 THEN <<48>> \o hex_length_str
        ELSE hex_length_str

\* Separator written after the last segment too
SeparatorAlways(at, n) == <<103>>

\* lines 216-217: the separator "g" after the segment at index at (from 0)
Separator(at, n) == IF at < n - 1 THEN <<103>> ELSE <<>>

\* Padded without the padding of lines 219-220
PaddedNever(r, d) == r

\* lines 219-220
Padded(r, d) == IF Len(r) < 20 THEN r \o SubSeq(d, 1, 20 - Len(r)) ELSE r

\* lines 202-205
ComputeDigest ==
    /\ pc = "start"
    /\ digest' = Md5Hex(Utf8(book_id))
    /\ result' = SubSeq(digest', 1, 3)
    /\ pc' = "transform"
    /\ UNCHANGED <<book_id, code, transformed_ids, i>>
    /\ UNCHANGED clientVars
    /\ UNCHANGED frontVars
    /\ UNCHANGED formatVars

\* lines 206-207
Transform ==
    /\ pc = "transform"
    /\ LET t == transform_id(book_id)
       IN  IF "raised" \in DOMAIN t
           THEN /\ pc' = "raised"
                /\ UNCHANGED <<code, transformed_ids, result>>
           ELSE /\ code' = t.value.code
                /\ transformed_ids' = t.value.ids
                /\ result' = result \o t.value.code \o <<50>>
                                    \o SubSeq(digest, 31, 32)
                /\ pc' = "loop"
    /\ UNCHANGED <<book_id, digest, i>>
    /\ UNCHANGED clientVars
    /\ UNCHANGED frontVars
    /\ UNCHANGED formatVars

\* lines 209-217, one iteration
LoopStep ==
    /\ pc = "loop"
    /\ i < Len(transformed_ids)
    /\ result' = result \o LengthPrefix(transformed_ids[i + 1])
                        \o transformed_ids[i + 1]
                        \o Separator(i, Len(transformed_ids))
    /\ i' = i + 1
    /\ UNCHANGED <<book_id, pc, digest, code, transformed_ids>>
    /\ UNCHANGED clientVars
    /\ UNCHANGED frontVars
    /\ UNCHANGED formatVars

\* lines 219-220, once the loop is over
Pad ==
    /\ pc = "loop"
    /\ i >= Len(transformed_ids)
    /\ result' = Padded(result, digest)
    /\ pc' = "hash"
    /\ UNCHANGED <<book_id, digest, code, transformed_ids, i>>
    /\ UNCHANGED clientVars
    /\ UNCHANGED frontVars
    /\ UNCHANGED formatVars

\* lines 222-225
Finish ==
    /\ pc = "hash"
    /\ result' = result \o SubSeq(Md5Hex(Utf8(result)), 1, 3)
    /\ pc' = "done"
    /\ UNCHANGED <<book_id, digest, code, transformed_ids, i>>
    /\ UNCHANGED clientVars
    /\ UNCHANGED frontVars
    /\ UNCHANGED formatVars

-----------------------------------------------------------------------------
(* Outcomes, JSON access and sorting.                                      *)

Returned(v) == [value |-> v]
ReturnedNone == [none |-> TRUE]
Raised(exc) == [raised |-> exc]

IsRaised(r) == "raised" \in DOMAIN r
IsValue(r) == "value" \in DOMAIN r

\* dict.get(key, default)
Get(d, key, default) == IF key \in DOMAIN d THEN d[key] ELSE default

\* session.get / session.post raised instead of giving a response
TransportFailed(response) == "failed" \in DOMAIN response

\* LexLess looking at the first component only
LexLessFirstOnly(a, b) == a[1] < b[1]

\* a < b for two tuples of integers of one length, as Python orders tuples
LexLess(a, b) ==
    \E k \in 1..Len(a) : a[k] < b[k] /\ \A j \in 1..(k - 1) : a[j] = b[j]

\* order with index k put behind every index whose key is not greater
InsertIndex(order, k, keys) ==
    LET p == Cardinality({q \in 1..Len(order) :
                             ~LexLess(keys[k], keys[order[q]])})
    IN  SubSeq(order, 1, p) \o <<k>> \o SubSeq(order, p + 1, Len(order))

\* the indices 1..n in ascending order of their keys, equal keys in their
\* original order (list.sort and sorted are stable)
RECURSIVE StableOrder(_, _)
StableOrder(keys, n) ==
    IF n = 0 THEN <<>>
    ELSE InsertIndex(StableOrder(keys, n - 1), n, keys)

\* sorted(items, key=...) with the keys already computed
SortedByKeys(items, keys) ==
    LET order == StableOrder(keys, Len(items))
    IN  [k \in 1..Len(items) |-> items[order[k]]]

\* the first exception among the outcomes, in list order
FirstRaised(outcomes) ==
    outcomes[CHOOSE k \in 1..Len(outcomes) :
                /\ IsRaised(outcomes[k])
                /\ \A j \in 1..(k - 1) : ~IsRaised(outcomes[j])]

AnyRaised(outcomes) == \E k \in 1..Len(outcomes) : IsRaised(outcomes[k])

\* the items a filter keeps: those whose flag is TRUE, in order
RECURSIVE Filtered(_, _, _)
Filtered(items, keep, n) ==
    IF n = 0 THEN <<>>
    ELSE IF keep[n] THEN Append(Filtered(items, keep, n - 1), items[n])
    ELSE Filtered(items, keep, n - 1)

-----------------------------------------------------------------------------
(* WeReadClient.__init__ and _parse_cookie_string, lines 26-55.  A cookie  *)
(* string "n1=v1; n2=v2" is the sequence of its <<name, value>> pairs, the *)
(* empty string the empty sequence.                                        *)

\* lines 50-55: the dictionary after the loop, a later pair overwriting an
\* earlier one of the same name; the jar is built from it in the loop, so
\* it stays None when there is no pair
_parse_cookie_string(cookie_string) ==
    IF cookie_string = <<>> THEN [none |-> TRUE]
    ELSE [jar |->
            [name \in {cookie_string[k][1] : k \in 1..Len(cookie_string)} |->
                cookie_string[
                    CHOOSE k \in 1..Len(cookie_string) :
                        /\ cookie_string[k][1] = name
                        /\ \A j \in (k + 1)..Len(cookie_string) :
                               cookie_string[j][1] # name][2]]]

\* lines 33-36, when the probe's request fails at the transport level:
\* session.get raises the transport's ConnectionError, which __init__ lets
\* through
ProbeFailure == Raised("ConnectionError")

\* lines 33-36: the outcomes of WeReadClient(cookie_string).  The probe is
\* sent whatever the cookie string; its response's status is not looked at.
\* With no cookie the session's jar is None: the transport stores a
\* response's cookies in the session's jar, and it either tolerates a
\* missing jar or raises AttributeError, as the installed version does.
ConstructOutcomes(cookie_string, probe_fails) ==
    LET cookies == _parse_cookie_string(cookie_string)
    IN  IF probe_fails THEN {ProbeFailure}
        ELSE IF "none" \in DOMAIN cookies
             THEN {Returned([session |-> cookies]), Raised("AttributeError")}
             ELSE {Returned([session |-> cookies])}

-----------------------------------------------------------------------------
(* The query operations, lines 57-189, as functions of the response the    *)
(* session got.                                                            *)

\* BookKey with the order turned round
BookKeyDescending(x) == IF "sort" \in DOMAIN x THEN Returned(<<0 - x["sort"]>>)
                        ELSE Raised("KeyError")

\* line 68: the sort key of one book entry
BookKey(x) == IF "sort" \in DOMAIN x THEN Returned(<<x["sort"]>>)
              ELSE Raised("KeyError")

\* get_notebooklist, lines 57-72
get_notebooklist(response) ==
    IF TransportFailed(response) THEN Raised("ConnectionError")
    ELSE IF response.ok
    THEN LET books == Get(response.json, "books", <<>>)
             keys  == [k \in 1..Len(books) |-> BookKey(books[k])]
         IN  IF AnyRaised(keys) THEN FirstRaised(keys)
             ELSE Returned(SortedByKeys(books,
                                        [k \in 1..Len(books) |-> keys[k].value]))
    ELSE ReturnedNone

\* s.split("-")[0]: the characters before the first "-"
RECURSIVE BeforeDash(_)
BeforeDash(s) ==
    IF s = <<>> \/ Head(s) = 45 THEN <<>>
    ELSE <<Head(s)>> \o BeforeDash(Tail(s))

\* the chapterUid a bookmark without one is sorted under
DefaultChapterUid == 1

\* int(x.get("range", "0-0").split("-")[0] or 0)
RangeStart(x) ==
    LET first == BeforeDash(Get(x, "range", <<48, 45, 48>>))
    IN  IF first = <<>> THEN Returned(0)
        ELSE IF IntParses(first) THEN Returned(IntOf(first))
        ELSE Raised("ValueError")

\* line 91: the sort key of one bookmark
BookmarkKey(x) ==
    LET start == RangeStart(x)
    IN  IF IsRaised(start) THEN start
        ELSE Returned(<<Get(x, "chapterUid", DefaultChapterUid), start.value>>)

\* get_bookmark_list, lines 74-94
get_bookmark_list(response) ==
    IF TransportFailed(response) THEN Raised("ConnectionError")
    ELSE IF response.ok
    THEN LET updated == Get(response.json, "updated", <<>>)
             keys    == [k \in 1..Len(updated) |-> BookmarkKey(updated[k])]
         IN  IF AnyRaised(keys) THEN FirstRaised(keys)
             ELSE Returned(SortedByKeys(updated,
                               [k \in 1..Len(updated) |-> keys[k].value]))
    ELSE ReturnedNone

\* get_read_info without the test of line 113
get_read_info_unchecked(response) ==
    IF TransportFailed(response) THEN Raised("ConnectionError")
    ELSE Returned(response.json)

\* get_read_info, lines 96-115
get_read_info(response) ==
    IF TransportFailed(response) THEN Raised("ConnectionError")
    ELSE IF response.ok THEN Returned(response.json)
    ELSE ReturnedNone

\* Quotient without the scaling of line 135
QuotientUnscaled(num, den) == [num |-> num, den |-> 1]

\* a rating: the quotient num / den, which Python computes in floating point
Quotient(num, den) == [num |-> num, den |-> den]

\* get_bookinfo, lines 117-139: the pair (isbn, rating); on a failure the
\* rating is the integer 0, here the quotient 0 / 1
get_bookinfo(response) ==
    IF TransportFailed(response) THEN Raised("ConnectionError")
    ELSE IF response.ok
    THEN Returned([isbn   |-> Get(response.json, "isbn", ""),
                   rating |-> Quotient(Get(response.json, "newRating", 0),
                                       1000)])
    ELSE Returned([isbn |-> "", rating |-> Quotient(0, 1)])

\* x.get("review", {}).get("type") == t
HasType(x, t) ==
    /\ "review" \in DOMAIN x
    /\ "type" \in DOMAIN x.review
    /\ x.review.type = t

\* line 164, {**x, "markText": x.pop("content")}: the display copies x, its
\* content included, before pop takes content out of x, so the new
\* dictionary keeps content next to markText
WithMarkText(x) ==
    [key \in DOMAIN x \cup {"markText"} |->
        IF key = "markText" THEN x["content"] ELSE x[key]]

\* line 164 for one review: KeyError when it has no content
MarkOutcome(x) ==
    IF "content" \in DOMAIN x THEN Returned(WithMarkText(x))
    ELSE Raised("KeyError")

\* IsSummary with the discriminant of the normal reviews
IsSummaryOfType1(x) == HasType(x, 1)

\* line 159: what the filter for the summary list keeps
IsSummary(x) == HasType(x, 4)

\* line 161: what the filter for the normal list keeps
IsNormal(x) == HasType(x, 1)

\* get_review_list, lines 141-166: the pair (summary, reviews)
get_review_list(response) ==
    IF TransportFailed(response) THEN Raised("ConnectionError")
    ELSE IF ~response.ok THEN Returned([summary |-> <<>>, reviews |-> <<>>])
    ELSE LET reviews == Get(response.json, "reviews", <<>>)
             n       == Len(reviews)
             summary == Filtered(reviews,
                                 [k \in 1..n |-> IsSummary(reviews[k])], n)
             normal  == Filtered(reviews,
                                 [k \in 1..n |-> IsNormal(reviews[k])], n)
             marked  == [k \in 1..Len(normal) |->
                            MarkOutcome(normal[k].review)]
         IN  IF AnyRaised(marked) THEN FirstRaised(marked)
             ELSE Returned([summary |-> summary,
                            reviews |-> [k \in 1..Len(marked) |->
                                            marked[k].value]])

\* ChapterMap with the items under their positions in the list
ChapterMapByPosition(update) ==
    Returned([k \in 1..Len(update) |-> update[k]])

\* line 187: the dictionary from chapterUid to item, a later item replacing
\* an earlier one of the same chapterUid; KeyError at the first item
\* without a chapterUid
ChapterMap(update) ==
    IF \E k \in 1..Len(update) : "chapterUid" \notin DOMAIN update[k]
    THEN Raised("KeyError")
    ELSE Returned(
           [uid \in {update[k].chapterUid : k \in 1..Len(update)} |->
               update[CHOOSE k \in 1..Len(update) :
                         /\ update[k].chapterUid = uid
                         /\ \A j \in (k + 1)..Len(update) :
                                update[j].chapterUid # uid]])

\* get_chapter_info, lines 168-189
get_chapter_info(response) ==
    IF TransportFailed(response) THEN Raised("ConnectionError")
    ELSE IF /\ response.ok
            /\ "data" \in DOMAIN response.json
            /\ Len(response.json.data) = 1
            /\ "updated" \in DOMAIN response.json.data[1]
    THEN ChapterMap(response.json.data[1].updated)
    ELSE ReturnedNone

-----------------------------------------------------------------------------
(* The identifiers the codec is run on.                                    *)

\* "0", "1", "9", "a", newline, ARABIC-INDIC DIGIT THREE
Alphabet == {48, 49, 57, 97, 10, 1635}

RECURSIVE SeqsUpTo(_, _)
SeqsUpTo(S, n) ==
    IF n = 0 THEN {<<>>}
    ELSE LET shorter == SeqsUpTo(S, n - 1)
         IN  shorter \cup {Append(s, c) : s \in shorter, c \in S}

\* "123456789" "012000000" "000000000" "7...": a chunk with leading zeros
\* and a chunk of zeros only
DigitStream == <<49, 50, 51, 52, 53, 54, 55, 56, 57,
                 48, 49, 50, 48, 48, 48, 48, 48, 48,
                 48, 48, 48, 48, 48, 48, 48, 48, 48>>

DigitAt(k) == IF k <= Len(DigitStream) THEN DigitStream[k] ELSE 48 + (k % 10)

Digits(n) == [k \in 1..n |-> DigitAt(k)]

Run(c, n) == [k \in 1..n |-> c]

Identifiers ==
    SeqsUpTo(Alphabet, MaxShort)
    \cup {Digits(n) : n \in 0..MaxDigits}
    \cup {Digits(n) \o <<10>> : n \in 0..MaxDigits}
    \cup {Run(97, n) : n \in (MaxRun - 1)..MaxRun}

-----------------------------------------------------------------------------
(* The responses of the upstream service.                                  *)

\* book entries, with and without the sort field
Books ==
    {[bookId |-> b] : b \in {"b1", "b2"}}
    \cup {[bookId |-> b, sort |-> n] : b \in {"b1", "b2"}, n \in {1, 2}}

\* the range strings "10-20", "5-9", "" (empty), "7" (no separator) and
\* "abc-5" (a start that is no number)
Ranges == {<<49, 48, 45, 50, 48>>, <<53, 45, 57>>, <<>>, <<55>>,
           <<97, 98, 99, 45, 53>>}

ChapterUids == {0, 1, 2}

\* bookmarks, with and without chapterUid and range
Bookmarks ==
    {[bookmarkId |-> "m"]}
    \cup {[bookmarkId |-> "m", chapterUid |-> u] : u \in ChapterUids}
    \cup {[bookmarkId |-> "m", range |-> r] : r \in Ranges}
    \cup {[bookmarkId |-> "m", chapterUid |-> u, range |-> r] :
             u \in ChapterUids, r \in Ranges}

\* the review of a list entry: type 1 (normal), 4 (summary), 2 (another
\* type) or missing, with and without content
Reviews ==
    {[reviewId |-> "r"], [reviewId |-> "r", content |-> "c"]}
    \cup {[reviewId |-> "r", type |-> t] : t \in {1, 2, 4}}
    \cup {[reviewId |-> "r", type |-> t, content |-> "c"] : t \in {1, 2, 4}}

\* the entries of a review list, one of them without a review
ReviewItems == {[idx |-> 0]} \cup {[idx |-> 0, review |-> r] : r \in Reviews}

\* chapter items, with and without chapterUid
Chapters ==
    {[title |-> t] : t \in {"t1", "t2"}}
    \cup {[title |-> t, chapterUid |-> u] : t \in {"t1", "t2"}, u \in {1, 2}}

\* the elements of a chapterInfos data array, with and without updated
DataElements ==
    {[bookId |-> "b1"]}
    \cup {[bookId |-> "b1", updated |-> u] : u \in SeqsUpTo(Chapters, MaxItems)}

\* data arrays: empty, of one element, and longer ones
DataArrays ==
    SeqsUpTo(DataElements, 1)
    \cup (SeqsUpTo({[bookId |-> "b1"], [bookId |-> "b1", updated |-> <<>>]},
                   MaxItems) \ {<<>>})

Payloads ==
    {[synckey |-> 0]}
    \cup {[synckey |-> 0, books |-> b] : b \in SeqsUpTo(Books, MaxItems)}
    \cup {[synckey |-> 0, updated |-> u] : u \in SeqsUpTo(Bookmarks, MaxItems)}
    \cup {[synckey |-> 0, reviews |-> r] :
             r \in SeqsUpTo(ReviewItems, MaxItems)}
    \cup {[synckey |-> 0, data |-> d] : d \in DataArrays}
    \cup {[bookId |-> "b1", readingTime |-> 120]}
    \cup {[bookId |-> "b1", isbn |-> "978"],
          [bookId |-> "b1", newRating |-> 4500],
          [bookId |-> "b1", isbn |-> "978", newRating |-> 4500]}

\* the payloads sent with a non-success status: an error object, and
\* payloads that would be read had the status been a success
ErrorPayloads ==
    {[errcode |-> 0 - 2012],
     [synckey |-> 0, books |-> <<[bookId |-> "b1", sort |-> 1]>>],
     [synckey |-> 0, updated |-> <<[bookmarkId |-> "m", chapterUid |-> 1]>>],
     [synckey |-> 0, reviews |-> <<[idx |-> 0,
                                    review |-> [reviewId |-> "r", type |-> 4]]>>],
     [synckey |-> 0, data |-> <<[bookId |-> "b1", updated |-> <<>>]>>],
     [bookId |-> "b1", isbn |-> "978", newRating |-> 4500]}

\* a request that failed at the transport level, a response with a
\* non-success status, a response with a success status
Responses ==
    {[failed |-> TRUE]}
    \cup {[ok |-> FALSE, json |-> p] : p \in ErrorPayloads}
    \cup {[ok |-> TRUE, json |-> p] : p \in Payloads}

\* the cookie strings "wr_skey=a; wr_vid=1; wr_skey=b" and ""
CookieStrings ==
    <<<<<<"wr_skey", "a">>, <<"wr_vid", "1">>, <<"wr_skey", "b">>>>, <<>>>>

-----------------------------------------------------------------------------
(* The session client: its construction and its calls.                     *)

NoClient == [none |-> TRUE]
NoCall == [none |-> TRUE]

\* one call of session.get or session.post
Request(method, url) == [method |-> method, url |-> url]

\* Requests with every request sent a second time
RequestsRetried(op) ==
    <<Request("GET", "WEREAD_URL"), Request("GET", "WEREAD_URL")>>

\* the requests one invocation sends, in order: the probe of line 36 and
\* the request of lines 64, 85, 112, 128, 152 and 179
Requests(op) ==
    IF op = "__init__" THEN <<Request("GET", "WEREAD_URL")>>
    ELSE IF op = "get_notebooklist"
    THEN <<Request("GET", "WEREAD_NOTEBOOKS_URL")>>
    ELSE IF op = "get_bookmark_list"
    THEN <<Request("GET", "WEREAD_BOOKMARKLIST_URL")>>
    ELSE IF op = "get_read_info"
    THEN <<Request("GET", "WEREAD_READ_INFO_URL")>>
    ELSE IF op = "get_bookinfo"
    THEN <<Request("GET", "WEREAD_BOOK_INFO")>>
    ELSE IF op = "get_review_list"
    THEN <<Request("GET", "WEREAD_REVIEW_LIST_URL")>>
    ELSE <<Request("POST", "WEREAD_CHAPTER_INFO")>>

\* client = WeReadClient(cookie_string)
Construct ==
    /\ client = NoClient
    /\ \E n \in DOMAIN CookieStrings, probe_fails \in BOOLEAN :
          \E outcome \in ConstructOutcomes(CookieStrings[n], probe_fails) :
             /\ made' = [cookie_string |-> CookieStrings[n],
                         probe_fails   |-> probe_fails,
                         outcome       |-> outcome,
                         sent          |-> Requests("__init__")]
             /\ client' = IF IsValue(outcome) THEN outcome.value ELSE NoClient
    /\ UNCHANGED <<upstream, call>>
    /\ UNCHANGED codecVars
    /\ UNCHANGED frontVars
    /\ UNCHANGED formatVars

\* one query operation of the client, against the upstream's response
Called(op, outcome) ==
    /\ client # NoClient
    /\ call' = [op |-> op, result |-> outcome, sent |-> Requests(op)]
    /\ UNCHANGED <<upstream, client, made>>
    /\ UNCHANGED codecVars
    /\ UNCHANGED frontVars
    /\ UNCHANGED formatVars

CallNotebookList == Called("get_notebooklist", get_notebooklist(upstream))
CallBookmarkList == Called("get_bookmark_list", get_bookmark_list(upstream))
CallReadInfo     == Called("get_read_info", get_read_info(upstream))
CallBookInfo     == Called("get_bookinfo", get_bookinfo(upstream))
CallReviewList   == Called("get_review_list", get_review_list(upstream))
CallChapterInfo  == Called("get_chapter_info", get_chapter_info(upstream))

ClientIdle ==
    /\ upstream = [none |-> TRUE]
    /\ client = NoClient
    /\ made = NoCall
    /\ call = NoCall

CodecIdle ==
    /\ book_id = <<>>
    /\ pc = "idle"
    /\ digest = <<>>
    /\ code = <<>>
    /\ transformed_ids = <<>>
    /\ i = 0
    /\ result = <<>>

\* format_highlights has not been called
FormatIdle ==
    /\ bookmarks = <<>>
    /\ max_highlights = [none |-> TRUE]
    /\ formatted = [none |-> TRUE]

\* no request has reached a front end
FrontIdle ==
    /\ DEFAULT_COOKIE = <<>>
    /\ client_cache = {}
    /\ constructed = 0
    /\ reply = [none |-> TRUE]
    /\ callers = <<>>

Init ==
    /\ upstream \in Responses
    /\ client = NoClient
    /\ made = NoCall
    /\ call = NoCall
    /\ CodecIdle
    /\ FrontIdle
    /\ FormatIdle

Next ==
    \/ Construct
    \/ CallNotebookList
    \/ CallBookmarkList
    \/ CallReadInfo
    \/ CallBookInfo
    \/ CallReviewList
    \/ CallChapterInfo

Spec == Init /\ [][Next]_vars

InitCodec ==
    /\ ClientIdle
    /\ book_id \in Identifiers
    /\ pc = "start"
    /\ digest = <<>>
    /\ code = <<>>
    /\ transformed_ids = <<>>
    /\ i = 0
    /\ result = <<>>
    /\ FrontIdle
    /\ FormatIdle

NextCodec == ComputeDigest \/ Transform \/ LoopStep \/ Pad \/ Finish

SpecCodec == InitCodec /\ [][NextCodec]_vars

-----------------------------------------------------------------------------
(* Numerals, as the properties below read them.                            *)

AllAsciiDigits(s) == \A k \in 1..Len(s) : IsAsciiDigit(s[k])

IsLowerHex(s) == \A k \in 1..Len(s) : s[k] \in (48..57) \cup (97..102)

\* the number a lowercase hexadecimal numeral denotes
RECURSIVE HexValue(_)
HexValue(s) ==
    IF s = <<>> THEN 0
    ELSE 16 * HexValue(SubSeq(s, 1, Len(s) - 1))
         + (IF s[Len(s)] <= 57 THEN s[Len(s)] - 48 ELSE s[Len(s)] - 87)

\* the number a string of ASCII digits denotes in base 10
RECURSIVE DecimalValue(_)
DecimalValue(s) ==
    IF s = <<>> THEN 0
    ELSE 10 * DecimalValue(SubSeq(s, 1, Len(s) - 1)) + (s[Len(s)] - 48)

-----------------------------------------------------------------------------
(* Properties of the session client, checked under Spec.                   *)

\* the last call was op
CalledOp(op) == "op" \in DOMAIN call /\ call.op = op

\* the upstream answers with a success status
OkResponse == ~TransportFailed(upstream) /\ upstream.ok

\* the list the upstream's payload holds under key, empty when it has none
UpstreamList(key) == Get(upstream.json, key, <<>>)

\* the review of list entry x has type t
TypeIs(x, t) ==
    "review" \in DOMAIN x /\ "type" \in DOMAIN x.review /\ x.review.type = t

\* C1 (as claimed): every normal review listReviews returns has a markText
\* field holding the content of the type-1 entry it comes from, and has no
\* content field.
C1_ContentMovedToMarkText ==
    (CalledOp("get_review_list") /\ OkResponse /\ IsValue(call.result)) =>
        LET normal == SelectSeq(UpstreamList("reviews"),
                                LAMBDA x : TypeIs(x, 1))
            out    == call.result.value.reviews
        IN  \A k \in 1..Len(out) :
               /\ "markText" \in DOMAIN out[k]
               /\ "content" \notin DOMAIN out[k]
               /\ k <= Len(normal)
               /\ out[k].markText = normal[k].review.content

\* the chapterUid a bookmark is ordered by
UidOf(x) == IF "chapterUid" \in DOMAIN x THEN x.chapterUid ELSE 1

\* the ASCII digits a string starts with
RECURSIVE LeadingDigits(_)
LeadingDigits(s) ==
    IF s = <<>> \/ ~IsAsciiDigit(Head(s)) THEN <<>>
    ELSE <<Head(s)>> \o LeadingDigits(Tail(s))

\* the integer start of a bookmark's range, 0 when it has no range
StartOf(x) == IF "range" \in DOMAIN x
              THEN DecimalValue(LeadingDigits(x.range)) ELSE 0

\* s is "start-end", two numerals with a "-" between them
IsStartEnd(s) ==
    \E d \in 2..(Len(s) - 1) :
        /\ s[d] = 45
        /\ AllAsciiDigits(SubSeq(s, 1, d - 1))
        /\ AllAsciiDigits(SubSeq(s, d + 1, Len(s)))

\* the bookmark's range is absent or a "start-end" string
HasUsualRange(x) == "range" \notin DOMAIN x \/ IsStartEnd(x.range)

\* b holds the elements of a, each as many times
IsPermutation(a, b) ==
    /\ Len(a) = Len(b)
    /\ \A k \in 1..Len(a) :
          Cardinality({j \in 1..Len(a) : a[j] = a[k]})
              = Cardinality({j \in 1..Len(b) : b[j] = a[k]})

\* in s, chapterUid never decreases from an entry to the next, nor does the
\* start among entries of one chapterUid
OrderedBy(s, Uid(_), Start(_)) ==
    \A k \in 1..(Len(s) - 1) :
        \/ Uid(s[k]) < Uid(s[k + 1])
        \/ Uid(s[k]) = Uid(s[k + 1]) /\ Start(s[k]) <= Start(s[k + 1])

\* C2: for a success response, listBookmarks returns a permutation of the
\* upstream entries in which chapterUid (1 when absent) never decreases
\* and, within one chapterUid, the integer start of range (0 when absent)
\* never decreases; it does return whenever every range is absent or a
\* "start-end" string.
C2_SortedPermutation ==
    (CalledOp("get_bookmark_list") /\ OkResponse) =>
        LET updated == UpstreamList("updated")
        IN  /\ (\A k \in 1..Len(updated) : HasUsualRange(updated[k]))
                  => IsValue(call.result)
            /\ IsValue(call.result) =>
                  /\ IsPermutation(updated, call.result.value)
                  /\ OrderedBy(call.result.value, UidOf, StartOf)

\* C2 witness: the upstream sent (chapterUid 2, "10-20") before
\* (chapterUid 1, "5-9") and the call returned them the other way round
C2_Witness ==
    /\ CalledOp("get_bookmark_list")
    /\ OkResponse
    /\ UpstreamList("updated") =
          <<[bookmarkId |-> "m", chapterUid |-> 2,
             range |-> <<49, 48, 45, 50, 48>>],
            [bookmarkId |-> "m", chapterUid |-> 1, range |-> <<53, 45, 57>>]>>
    /\ call.result =
          Returned(<<[bookmarkId |-> "m", chapterUid |-> 1,
                      range |-> <<53, 45, 57>>],
                     [bookmarkId |-> "m", chapterUid |-> 2,
                      range |-> <<49, 48, 45, 50, 48>>]>>)

\* a range that is empty, has no "-", or starts with something that is no
\* number
IsMalformed(s) ==
    \/ s = <<>>
    \/ \A k \in 1..Len(s) : s[k] # 45
    \/ LeadingDigits(s) = <<>>
    \/ s[Len(LeadingDigits(s)) + 1] # 45

\* the start C3 orders a bookmark by: 0 when the range is absent or
\* malformed
ClaimedStartOf(x) ==
    IF "range" \notin DOMAIN x \/ IsMalformed(x.range) THEN 0
    ELSE DecimalValue(LeadingDigits(x.range))

\* C3 (as claimed): listBookmarks never raises on a success response, and
\* orders a bookmark with an absent or malformed range as if its start were
\* 0 and a bookmark without chapterUid as if it were 1.
C3_MalformedRangeSortsAsZero ==
    (CalledOp("get_bookmark_list") /\ OkResponse) =>
        /\ IsValue(call.result)
        /\ IsPermutation(UpstreamList("updated"), call.result.value)
        /\ OrderedBy(call.result.value, UidOf, ClaimedStartOf)

\* the normal review made of review x: x's fields and markText
IsMarked(out, x) ==
    /\ "markText" \in DOMAIN out
    /\ out.markText = x.content
    /\ \A key \in DOMAIN x \ {"markText", "content"} :
          key \in DOMAIN out /\ out[key] = x[key]
    /\ DOMAIN out \subseteq DOMAIN x \cup {"markText"}

\* C4: for a success response, listReviews returns (summary, normal) where
\* summary is the upstream entries of type 4 and normal has one result for
\* each entry of type 1, both in upstream order; no entry is in both, and
\* an entry of another type or of none is in neither.  It does return
\* whenever every type-1 review has a content.
C4_Partition ==
    (CalledOp("get_review_list") /\ OkResponse) =>
        LET reviews == UpstreamList("reviews")
            fours   == SelectSeq(reviews, LAMBDA x : TypeIs(x, 4))
            ones    == SelectSeq(reviews, LAMBDA x : TypeIs(x, 1))
        IN  /\ (\A k \in 1..Len(ones) : "content" \in DOMAIN ones[k].review)
                  => IsValue(call.result)
            /\ IsValue(call.result) =>
                  /\ call.result.value.summary = fours
                  /\ Len(call.result.value.reviews) = Len(ones)
                  /\ \A k \in 1..Len(ones) :
                        IsMarked(call.result.value.reviews[k], ones[k].review)
                  /\ \A k \in 1..Len(fours) : ~TypeIs(fours[k], 1)
                  /\ Len(fours) + Len(ones) =
                        Cardinality({k \in 1..Len(reviews) :
                                        TypeIs(reviews[k], 1)
                                        \/ TypeIs(reviews[k], 4)})

\* C4 witness: a type-1 entry and a type-4 entry came back in the two lists
C4_Witness ==
    /\ CalledOp("get_review_list")
    /\ OkResponse
    /\ IsValue(call.result)
    /\ Len(UpstreamList("reviews")) = 2
    /\ TypeIs(UpstreamList("reviews")[1], 1)
    /\ TypeIs(UpstreamList("reviews")[2], 4)
    /\ call.result.value.summary = <<UpstreamList("reviews")[2]>>
    /\ Len(call.result.value.reviews) = 1
    /\ call.result.value.reviews[1].markText = "c"

\* the result an operation gives instead of data
IsSoft(op, r) ==
    IF op = "get_review_list"
    THEN r = Returned([summary |-> <<>>, reviews |-> <<>>])
    ELSE IF op = "get_bookinfo"
    THEN r = Returned([isbn |-> "", rating |-> Quotient(0, 1)])
    ELSE r = ReturnedNone

\* C5 (as claimed): no query operation raises, whatever the upstream did,
\* and on a non-success status or a transport failure it gives its empty
\* or "unavailable" result.
C5_NeverRaises ==
    "op" \in DOMAIN call =>
        /\ ~IsRaised(call.result)
        /\ (TransportFailed(upstream) \/ ~upstream.ok)
              => IsSoft(call.op, call.result)

\* C6 (as claimed): a construction with an empty credential, or one whose
\* probe fails at the transport level, fails with AuthenticationError and
\* produces no instance; no query operation raises AuthenticationError.
C6_AuthenticationError ==
    /\ "outcome" \in DOMAIN made =>
          ((made.cookie_string = <<>> \/ made.probe_fails) =>
              /\ made.outcome = Raised("AuthenticationError")
              /\ client = NoClient)
    /\ "op" \in DOMAIN call =>
          call.result # Raised("AuthenticationError")

-----------------------------------------------------------------------------
(* Properties of the codec, checked under SpecCodec.                       *)

\* transform_id has returned in this run
Transformed == pc \in {"loop", "hash", "done"}

\* C7 (as claimed): the identifier is classified numeric, mode code "3",
\* exactly when all its characters are ASCII digits "0".."9"; any other
\* identifier is classified generic, mode code "4", with the one segment
\* that concatenates the hex of its code points.
C7_NumericIffAsciiDigits ==
    pc \in {"loop", "hash", "done", "raised"} =>
        IF AllAsciiDigits(book_id)
        THEN pc # "raised" /\ code = <<51>>
        ELSE /\ pc # "raised"
             /\ code = <<52>>
             /\ transformed_ids =
                    <<Flat([k \in 1..Len(book_id) |-> Hex(book_id[k])],
                           1, Len(book_id))>>

\* what one iteration of the loop appended to result
Appended == SubSeq(result', Len(result) + 1, Len(result'))

\* the prefix of width w that an iteration wrote is followed by the segment
\* and encodes the segment's length
WrotePrefix(w) ==
    LET seg == transformed_ids[i + 1]
    IN  /\ Len(Appended) >= w + Len(seg)
        /\ SubSeq(Appended, w + 1, w + Len(seg)) = seg
        /\ IsLowerHex(SubSeq(Appended, 1, w))
        /\ HexValue(SubSeq(Appended, 1, w)) = Len(seg)
        /\ Len(Appended) - (w + Len(seg)) \in {0, 1}

\* C8 (as claimed): every length prefix written before a segment is exactly
\* 2 lowercase hex characters that encode the segment's length, also for a
\* generic segment of 256 or more characters.
C8_PrefixAlwaysTwoChars ==
    [][(pc = "loop" /\ i < Len(transformed_ids)) => WrotePrefix(2)]_vars

\* the width the code gives the prefix of a segment of n characters
PrefixWidth(n) == IF n < 256 THEN 2 ELSE IF n < 4096 THEN 3 ELSE 4

\* C8 (amended): the length prefix is the segment's length in lowercase hex,
\* zero-padded to at least 2 characters: exactly 2 characters when the
\* segment has fewer than 256 characters (always so in numeric mode), and
\* the unpadded 3 or more hex characters when it has 256 or more.
C8_PrefixAtLeastTwoChars ==
    [][(pc = "loop" /\ i < Len(transformed_ids)) =>
          /\ WrotePrefix(PrefixWidth(Len(transformed_ids[i + 1])))
          /\ (code = <<51>> => Len(transformed_ids[i + 1]) <= 8)
          /\ (Len(transformed_ids[i + 1]) >= 256 =>
                 Appended[1] # 48)]_vars

\* C8 witness: the loop has written the 3-character prefix "100" before a
\* generic segment of 256 characters
C8_Witness ==
    /\ pc = "loop"
    /\ i = 1
    /\ code = <<52>>
    /\ Len(transformed_ids[1]) = 256
    /\ SubSeq(result, 8, 10) = <<49, 48, 48>>
    /\ SubSeq(result, 11, Len(result)) = transformed_ids[1]

\* the reference's length prefix: the length in hex, zero-padded to width 2
RefPrefix(seg) ==
    LET h == Hex(Len(seg)) IN IF Len(h) < 2 THEN <<48>> \o h ELSE h

\* the segments in order, each after its prefix, "g" between two of them
RECURSIVE RefJoined(_)
RefJoined(segs) ==
    IF segs = <<>> THEN <<>>
    ELSE IF Len(segs) = 1 THEN RefPrefix(segs[1]) \o segs[1]
    ELSE RefPrefix(segs[1]) \o segs[1] \o <<103>> \o RefJoined(Tail(segs))

\* the reference composition of the web identifier
RefWebIdentifier(id) ==
    LET d    == Md5Hex(Utf8(id))
        t    == transform_id(id).value
        body == SubSeq(d, 1, 3) \o t.code \o <<50>> \o SubSeq(d, 31, 32)
                \o RefJoined(t.ids)
        full == IF Len(body) < 20
                THEN body \o SubSeq(d, 1, 20 - Len(body)) ELSE body
    IN  full \o SubSeq(Md5Hex(Utf8(full)), 1, 3)

\* C9: the identifier calculate_book_str_id returns is the reference
\* composition: digest[0:3], mode code, "2", digest[-2:], the segments each
\* after its length prefix with "g" only between two segments, the padding
\* from the start of the digest up to 20 characters, and the first 3 hex
\* characters of the digest of all that.
C9_EqualsReference ==
    pc = "done" => result = RefWebIdentifier(book_id)

\* C9 witness: a finished run over three segments, two separators written
C9_Witness ==
    /\ pc = "done"
    /\ Len(transformed_ids) = 3
    /\ Len(result) > 23
    /\ Cardinality({k \in 1..Len(result) : result[k] = 103}) = 2

\* the k-th block of 9 characters of id, the last one possibly shorter
Block(id, k) == SubSeq(id, 9 * (k - 1) + 1, Min(9 * k, Len(id)))

\* C10: an identifier of n ASCII digits is in numeric mode and yields
\* ceil(n/9) segments in order, the k-th being the lowercase hex numeral,
\* without leading zeros, of the base-10 value of the k-th block of 9
\* digits (the last block possibly shorter; a block of zeros yields "0").
C10_NumericChunks ==
    (Transformed /\ AllAsciiDigits(book_id)) =>
        /\ code = <<51>>
        /\ Len(transformed_ids) = (Len(book_id) + 8) \div 9
        /\ \A k \in 1..Len(transformed_ids) :
              LET seg == transformed_ids[k]
              IN  /\ seg # <<>>
                  /\ IsLowerHex(seg)
                  /\ (Len(seg) > 1 => seg[1] # 48)
                  /\ HexValue(seg) = DecimalValue(Block(book_id, k))
                  /\ (k < Len(transformed_ids) =>
                         Len(Block(book_id, k)) = 9)

\* C10 witness: 27 digits gave three segments, the last from a block of
\* nine zeros, the second from a block with a leading zero
C10_Witness ==
    /\ Transformed
    /\ Len(book_id) = 27
    /\ AllAsciiDigits(book_id)
    /\ Len(transformed_ids) = 3
    /\ transformed_ids[3] = <<48>>
    /\ Block(book_id, 2)[1] = 48
    /\ transformed_ids[2] # <<48>>

-----------------------------------------------------------------------------
(* The length of the web identifier.                                       *)

\* C11: when the loop is left the intermediate result has at least 20
\* characters, exactly 20 whenever the padding of lines 219-220 changed it,
\* and the returned identifier is that intermediate result followed by
\* exactly 3 more characters, hence at least 23 characters long.
C11_LengthAtLeast20 ==
    [][/\ (pc = "loop" /\ pc' = "hash") =>
              /\ Len(result') >= 20
              /\ (result' # result => Len(result') = 20)
              /\ SubSeq(result', 1, Len(result)) = result
       /\ (pc = "hash" /\ pc' = "done") =>
              /\ Len(result) >= 20
              /\ Len(result') = Len(result) + 3
              /\ SubSeq(result', 1, Len(result)) = result
              /\ Len(result') >= 23]_vars

\* C11 witness: a one-character identifier, whose 11 characters before the
\* padding were padded to 20, was returned with 23 characters
C11_Witness ==
    /\ pc = "done"
    /\ Len(book_id) = 1
    /\ Len(transformed_ids) = 1
    /\ 7 + 2 + Len(transformed_ids[1]) < 20
    /\ Len(result) = 23
    /\ SubSeq(result, 12, 20) = SubSeq(digest, 1, 9)

-----------------------------------------------------------------------------
(* Totality of the codec.                                                  *)

\* C12: calculate_book_str_id is total and reads and writes no state: for
\* every string, the empty one included, no step of a run raises, a
\* finished run holds a string of lowercase hex digits and "g" that depends
\* on the identifier alone, and the client's state is left as it was.
C12_TotalAndDeterministic ==
    /\ pc # "raised"
    /\ ClientIdle
    /\ (pc = "done" =>
           /\ result = RefWebIdentifier(book_id)
           /\ \A k \in 1..Len(result) :
                 result[k] = 103 \/ IsLowerHex(<<result[k]>>))

-----------------------------------------------------------------------------
(* The chapter map and the library list.                                   *)

\* the response gives get_chapter_info nothing to build a map from
NoChapterData ==
    \/ ~upstream.ok
    \/ "data" \notin DOMAIN upstream.json
    \/ Len(upstream.json.data) # 1
    \/ "updated" \notin DOMAIN upstream.json.data[1]

\* C13: listChapters returns None whenever the response has a non-success
\* status, no data array, a data array of a length other than 1, or a
\* single element without an updated field; otherwise what it returns is a
\* mapping whose keys are exactly the chapterUid values of the updated
\* list, each key mapped to an item of that list carrying that chapterUid,
\* and it does return whenever every item has a chapterUid.
C13_ChapterMap ==
    (CalledOp("get_chapter_info") /\ ~TransportFailed(upstream)) =>
        IF NoChapterData THEN call.result = ReturnedNone
        ELSE LET updated == upstream.json.data[1].updated
                 keyed   == \A k \in 1..Len(updated) :
                               "chapterUid" \in DOMAIN updated[k]
             IN  /\ call.result # ReturnedNone
                 /\ keyed => IsValue(call.result)
                 /\ IsValue(call.result) =>
                       /\ keyed
                       /\ DOMAIN call.result.value =
                              {updated[k].chapterUid : k \in 1..Len(updated)}
                       /\ \A uid \in DOMAIN call.result.value :
                             /\ call.result.value[uid].chapterUid = uid
                             /\ \E k \in 1..Len(updated) :
                                   updated[k] = call.result.value[uid]

\* C13 witness: two items of chapterUid 2 and one key, under which the
\* call returned an item of that chapterUid
C13_Witness ==
    /\ CalledOp("get_chapter_info")
    /\ OkResponse
    /\ ~NoChapterData
    /\ upstream.json.data[1].updated =
          <<[title |-> "t1", chapterUid |-> 2],
            [title |-> "t2", chapterUid |-> 2]>>
    /\ IsValue(call.result)
    /\ DOMAIN call.result.value = {2}
    /\ call.result.value[2].chapterUid = 2

\* C14: for a success response, listLibrary returns a permutation of the
\* upstream book entries in which the sort field never decreases from an
\* entry to the next, and it does return whenever every entry has a sort
\* field; on a non-success status it returns None and does not raise.
C14_LibrarySorted ==
    (CalledOp("get_notebooklist") /\ ~TransportFailed(upstream)) =>
        IF ~upstream.ok THEN call.result = ReturnedNone
        ELSE LET books  == UpstreamList("books")
                 sorted == \A k \in 1..Len(books) : "sort" \in DOMAIN books[k]
             IN  /\ sorted => IsValue(call.result)
                 /\ IsValue(call.result) =>
                       /\ sorted
                       /\ IsPermutation(books, call.result.value)
                       /\ \A k \in 1..(Len(books) - 1) :
                             call.result.value[k]["sort"]
                                 <= call.result.value[k + 1]["sort"]

\* C14 witness: the upstream sent the entry of sort 2 before the entry of
\* sort 1 and the call returned them the other way round
C14_Witness ==
    /\ CalledOp("get_notebooklist")
    /\ OkResponse
    /\ UpstreamList("books") = <<[bookId |-> "b1", sort |-> 2],
                                 [bookId |-> "b2", sort |-> 1]>>
    /\ call.result = Returned(<<[bookId |-> "b2", sort |-> 1],
                                [bookId |-> "b1", sort |-> 2]>>)

\* C14 witness of the other case: a non-success status, whose payload
\* holds a book list, and None returned
C14_WitnessUnavailable ==
    /\ CalledOp("get_notebooklist")
    /\ ~TransportFailed(upstream)
    /\ ~upstream.ok
    /\ "books" \in DOMAIN upstream.json
    /\ call.result = ReturnedNone

-----------------------------------------------------------------------------
(* Book details and the soft results.                                      *)

\* the quotient q has the value num / den
RatingIs(q, num, den) == q.den > 0 /\ q.num * den = num * q.den

\* C15: on a success response getBookDetails returns the pair of the isbn
\* field ("" when missing) and newRating / 1000 (0 when newRating is
\* missing; 4.5 for a newRating of 4500); on a non-success status it
\* returns exactly ("", 0).
C15_BookDetails ==
    (CalledOp("get_bookinfo") /\ ~TransportFailed(upstream)) =>
        /\ IsValue(call.result)
        /\ DOMAIN call.result.value = {"isbn", "rating"}
        /\ IF upstream.ok
           THEN /\ call.result.value.isbn = Get(upstream.json, "isbn", "")
                /\ RatingIs(call.result.value.rating,
                            Get(upstream.json, "newRating", 0), 1000)
                /\ ("newRating" \notin DOMAIN upstream.json =>
                       RatingIs(call.result.value.rating, 0, 1))
                /\ (Get(upstream.json, "newRating", 0) = 4500 =>
                       RatingIs(call.result.value.rating, 45, 10))
           ELSE /\ call.result.value.isbn = ""
                /\ call.result.value.rating.num = 0
                /\ call.result.value.rating.den = 1

\* C15 witness: a success response with isbn "978" and newRating 4500, and
\* the pair ("978", 4500 / 1000) returned
C15_Witness ==
    /\ CalledOp("get_bookinfo")
    /\ OkResponse
    /\ upstream.json = [bookId |-> "b1", isbn |-> "978", newRating |-> 4500]
    /\ IsValue(call.result)
    /\ call.result.value.isbn = "978"
    /\ call.result.value.rating.num = 4500
    /\ call.result.value.rating.den = 1000

\* C15 witness of the defaults: a success response with neither field
C15_WitnessDefaults ==
    /\ CalledOp("get_bookinfo")
    /\ OkResponse
    /\ "isbn" \notin DOMAIN upstream.json
    /\ "newRating" \notin DOMAIN upstream.json
    /\ IsValue(call.result)
    /\ call.result.value.isbn = ""
    /\ call.result.value.rating.num = 0

\* C16: on a non-success status every query operation yields its soft
\* result: get_notebooklist, get_bookmark_list, get_read_info and
\* get_chapter_info return None, get_review_list returns two empty
\* sequences, get_bookinfo returns ("", 0); on a success status
\* get_read_info returns the upstream record unchanged.
C16_SoftResults ==
    ("op" \in DOMAIN call /\ ~TransportFailed(upstream)) =>
        /\ ~upstream.ok =>
              /\ (call.op \in {"get_notebooklist", "get_bookmark_list",
                               "get_read_info", "get_chapter_info"}
                     => call.result = ReturnedNone)
              /\ (call.op = "get_review_list" =>
                     /\ IsValue(call.result)
                     /\ call.result.value.summary = <<>>
                     /\ call.result.value.reviews = <<>>)
              /\ (call.op = "get_bookinfo" =>
                     /\ IsValue(call.result)
                     /\ call.result.value.isbn = ""
                     /\ call.result.value.rating.num = 0
                     /\ call.result.value.rating.den = 1)
        /\ (upstream.ok /\ call.op = "get_read_info") =>
              call.result = Returned(upstream.json)

\* C16 witness: get_read_info returned None on a non-success status
C16_Witness ==
    /\ CalledOp("get_read_info")
    /\ ~TransportFailed(upstream)
    /\ ~upstream.ok
    /\ upstream.json = [bookId |-> "b1", isbn |-> "978", newRating |-> 4500]
    /\ call.result = ReturnedNone

\* C16 witness of the success case: the reading record returned as sent
C16_WitnessUnchanged ==
    /\ CalledOp("get_read_info")
    /\ OkResponse
    /\ upstream.json = [bookId |-> "b1", readingTime |-> 120]
    /\ call.result = Returned([bookId |-> "b1", readingTime |-> 120])

\* C16 witness of the review list: a non-success status whose payload
\* holds a summary review, and two empty sequences returned
C16_WitnessReviews ==
    /\ CalledOp("get_review_list")
    /\ ~TransportFailed(upstream)
    /\ ~upstream.ok
    /\ "reviews" \in DOMAIN upstream.json
    /\ call.result = Returned([summary |-> <<>>, reviews |-> <<>>])

-----------------------------------------------------------------------------
(* The requests an invocation sends.                                       *)

\* the endpoint an operation asks
EndpointOf(op) ==
    CASE op = "get_notebooklist"  -> "WEREAD_NOTEBOOKS_URL"
      [] op = "get_bookmark_list" -> "WEREAD_BOOKMARKLIST_URL"
      [] op = "get_read_info"     -> "WEREAD_READ_INFO_URL"
      [] op = "get_bookinfo"      -> "WEREAD_BOOK_INFO"
      [] op = "get_review_list"   -> "WEREAD_REVIEW_LIST_URL"
      [] op = "get_chapter_info"  -> "WEREAD_CHAPTER_INFO"

C18_WitnessProbeFailed ==
    /\ "outcome" \in DOMAIN made
    /\ made.probe_fails
    /\ IsRaised(made.outcome)
    /\ Len(made.sent) = 1
    /\ client = NoClient

-----------------------------------------------------------------------------
(* The front ends: the REST routes of src/weread/api/routes.py and the     *)
(* tools of src/weread/mcp/server.py.  Each asks get_weread_client for a   *)
(* client and then calls it.  A cookie argument is a cookie string, the    *)
(* empty sequence standing for both "" and None, which line 45 of          *)
(* mcp/server.py and line 35 of api/routes.py treat alike.  client_cache   *)
(* is the set of its entries, at most one for a cookie.  A reply of the    *)
(* REST layer carries its HTTP status; a reply of a tool says whether the  *)
(* tool raised.                                                            *)

\* requests are served until WeReadClient(...) was called this many times
MaxConstructions == 3
\* the get_weread_client calls that run side by side
NumCallers == 2

\* the cookie strings "wr_skey=a" and "wr_skey=b"
FrontCookies == {<<<<"wr_skey", "a">>>>, <<<<"wr_skey", "b">>>>}

\* what a request gives for its cookie: a cookie string, or nothing
CookieArgs == FrontCookies \cup {<<>>}

\* the WEREAD_COOKIE of the environment: unset, or "wr_skey=a"
DefaultCookies == {<<>>, <<<<"wr_skey", "a">>>>}

\* what the upstream answers while a front end is served: a transport
\* failure, a non-success status, a success without a book list, with a
\* book list, and with a book entry that has no sort field
FrontResponses ==
    {[failed |-> TRUE],
     [ok |-> FALSE, json |-> [errcode |-> 0 - 2012]],
     [ok |-> TRUE, json |-> [synckey |-> 0]],
     [ok |-> TRUE, json |-> [synckey |-> 0,
                             books |-> <<[bookId |-> "b1", sort |-> 2],
                                         [bookId |-> "b2", sort |-> 1]>>]],
     [ok |-> TRUE, json |-> [synckey |-> 0,
                             books |-> <<[bookId |-> "b1"]>>]]}

\* the n-th WeReadClient object made, for cookie
Instance(n, cookie, made_client) ==
    [id |-> n, cookie |-> cookie, session |-> made_client.session]

\* WeReadClient(cookie) as a front end calls it: the new object, or the
\* exception of the constructor
NewClient(cookie) ==
    {IF IsValue(o) THEN Returned(Instance(constructed + 1, cookie, o.value))
     ELSE o :
        o \in UNION {ConstructOutcomes(cookie, probe_fails) :
                        probe_fails \in BOOLEAN}}

\* cookie or DEFAULT_COOKIE
OrDefault(cookie) == IF cookie # <<>> THEN cookie ELSE DEFAULT_COOKIE

\* Cached without the lookup of line 51
CachedNever(cookie) == FALSE

\* cookie in client_cache
Cached(cookie) == \E e \in client_cache : e.cookie = cookie

\* client_cache[cookie]
CacheGet(cookie) == (CHOOSE e \in client_cache : e.cookie = cookie).client

\* the cache after client_cache[cookie] = c
CachePut(cookie, c) ==
    {e \in client_cache : e.cookie # cookie}
        \cup {[cookie |-> cookie, client |-> c]}

\* what get_weread_client gives when the constructor's outcome is o
Authenticated(o) ==
    IF IsValue(o) THEN o
    ELSE Raised("Failed to authenticate with WeRead")

\* api/routes.py, get_weread_client: what it returns or raises, and how
\* many clients it built
RestGetClient(arg) ==
    LET cookie == OrDefault(arg)
    IN  IF cookie = <<>>
        THEN {[outcome |-> Raised("WeRead cookie is required"), built |-> 0]}
        ELSE {[outcome |-> Authenticated(o), built |-> 1] :
                 o \in NewClient(cookie)}

\* mcp/server.py, get_weread_client: what it returns or raises, how many
\* clients it built, and the cache it leaves
McpGetClient(arg) ==
    LET cookie == OrDefault(arg)
    IN  IF cookie = <<>>
        THEN {[outcome |-> Raised("WeRead cookie is required"), built |-> 0,
               cache |-> client_cache]}
        ELSE IF Cached(cookie)
        THEN {[outcome |-> Returned(CacheGet(cookie)), built |-> 0,
               cache |-> client_cache]}
        ELSE {[outcome |-> Authenticated(o), built |-> 1,
               cache |-> IF IsValue(o) THEN CachePut(cookie, o.value)
                         ELSE client_cache] :
                 o \in NewClient(cookie)}

\* the reply of a REST route
RestReply(route, arg, got, status, detail) ==
    [front |-> "rest", route |-> route, cookie |-> arg, client |-> got,
     status |-> status, detail |-> detail]

\* the reply of a tool
ToolReply(tool, arg, got, raised, detail) ==
    [front |-> "mcp", route |-> tool, cookie |-> arg, client |-> got,
     raised |-> raised, detail |-> detail]

\* a REST route was served
RestServed(r, g) ==
    /\ reply' = r
    /\ constructed' = constructed + g.built
    /\ UNCHANGED <<DEFAULT_COOKIE, client_cache, callers>>
    /\ UNCHANGED clientVars
    /\ UNCHANGED codecVars
    /\ UNCHANGED formatVars

\* a tool was run
ToolServed(r, g) ==
    /\ reply' = r
    /\ constructed' = constructed + g.built
    /\ client_cache' = g.cache
    /\ UNCHANGED <<DEFAULT_COOKIE, callers>>
    /\ UNCHANGED clientVars
    /\ UNCHANGED codecVars
    /\ UNCHANGED formatVars

\* api/routes.py lines 51-66: POST /auth
RestAuthenticate ==
    /\ constructed < MaxConstructions
    /\ \E arg \in CookieArgs : \E g \in RestGetClient(arg) :
          RestServed(IF IsValue(g.outcome)
                     THEN RestReply("/auth", arg, g.outcome, 200, "")
                     ELSE RestReply("/auth", arg, g.outcome, 401,
                                    g.outcome.raised),
                     g)

\* the status and detail a REST route answers after a call of its client
\* gave outcome: lines 84-89, 165-172, 252-259.  The detail is the message
\* of the exception, without what str(e) puts around it.
RestAfterCall(route, arg, got, outcome, none_detail) ==
    IF IsRaised(outcome)
    THEN RestReply(route, arg, got, 500, outcome.raised)
    ELSE IF outcome = ReturnedNone /\ none_detail # ""
    THEN RestReply(route, arg, got, 500, none_detail)
    ELSE RestReply(route, arg, got, 200, "")

\* a REST route that gets a client and makes one call; an exception of
\* get_weread_client is caught by the route's except clause
RestRoute(route, outcome, none_detail) ==
    /\ constructed < MaxConstructions
    /\ \E arg \in CookieArgs : \E g \in RestGetClient(arg) :
          RestServed(IF IsRaised(g.outcome)
                     THEN RestReply(route, arg, g.outcome, 500,
                                    g.outcome.raised)
                     ELSE RestAfterCall(route, arg, g.outcome, outcome,
                                        none_detail),
                     g)

\* api/routes.py lines 69-89: POST /books
RestGetBooks ==
    RestRoute("/books", get_notebooklist(upstream),
              "Failed to fetch books from WeRead")

\* api/routes.py lines 151-172: POST /books/{book_id}/bookmarks
RestGetBookBookmarks ==
    RestRoute("/books/{book_id}/bookmarks", get_bookmark_list(upstream), "")

\* api/routes.py lines 238-259: POST /books/{book_id}/reviews
RestGetBookReviews ==
    RestRoute("/books/{book_id}/reviews", get_review_list(upstream), "")

\* mcp/server.py lines 63-78: the tool authenticate
ToolAuthenticate ==
    /\ constructed < MaxConstructions
    /\ \E arg \in CookieArgs : \E g \in McpGetClient(arg) :
          ToolServed(ToolReply("authenticate", arg, g.outcome, FALSE,
                               IF IsValue(g.outcome) THEN ""
                               ELSE g.outcome.raised),
                     g)

\* what a tool answers after a call of its client gave outcome: lines
\* 94-99, 169-174, 247-252
ToolAfterCall(tool, arg, got, outcome, none_detail) ==
    IF IsRaised(outcome)
    THEN ToolReply(tool, arg, got, TRUE, outcome.raised)
    ELSE IF outcome = ReturnedNone /\ none_detail # ""
    THEN ToolReply(tool, arg, got, TRUE, none_detail)
    ELSE ToolReply(tool, arg, got, FALSE, "")

\* a tool that gets a client and makes one call; an exception of
\* get_weread_client leaves the tool as it is
Tool(tool, outcome, none_detail) ==
    /\ constructed < MaxConstructions
    /\ \E arg \in CookieArgs : \E g \in McpGetClient(arg) :
          ToolServed(IF IsRaised(g.outcome)
                     THEN ToolReply(tool, arg, g.outcome, TRUE,
                                    g.outcome.raised)
                     ELSE ToolAfterCall(tool, arg, g.outcome, outcome,
                                        none_detail),
                     g)

\* mcp/server.py lines 81-99: the tool get_books
ToolGetBooks ==
    Tool("get_books", get_notebooklist(upstream),
         "Failed to fetch books from WeRead")

\* mcp/server.py lines 156-174: the tool get_book_bookmarks
ToolGetBookBookmarks ==
    Tool("get_book_bookmarks", get_bookmark_list(upstream), "")

\* mcp/server.py lines 234-252: the tool get_book_reviews
ToolGetBookReviews ==
    Tool("get_book_reviews", get_review_list(upstream), "")

InitFront ==
    /\ upstream \in FrontResponses
    /\ client = NoClient
    /\ made = NoCall
    /\ call = NoCall
    /\ CodecIdle
    /\ DEFAULT_COOKIE \in DefaultCookies
    /\ client_cache = {}
    /\ constructed = 0
    /\ reply = [none |-> TRUE]
    /\ callers = <<>>
    /\ FormatIdle

NextFront ==
    \/ RestAuthenticate
    \/ RestGetBooks
    \/ RestGetBookBookmarks
    \/ RestGetBookReviews
    \/ ToolAuthenticate
    \/ ToolGetBooks
    \/ ToolGetBookBookmarks
    \/ ToolGetBookReviews

\* the front ends serving one request after the other
SpecFront == InitFront /\ [][NextFront]_vars

-----------------------------------------------------------------------------
(* Failed constructions in the front ends.                                 *)

\* the request's get_weread_client raised: no cookie, or the constructor
\* failed
ConstructionFailed == "client" \in DOMAIN reply /\ IsRaised(reply.client)

\* the reply's detail names the authentication failure
NamesAuthFailure ==
    reply.detail \in {"WeRead cookie is required",
                      "Failed to authenticate with WeRead"}

\* C17 (as claimed): whenever get_weread_client fails while a front end
\* serves a request, the REST layer answers 401 on every route that needs
\* a client, a tool reports the authentication failure, and the
\* construction is not tried again.
C17_Unauthorized ==
    ConstructionFailed =>
        /\ NamesAuthFailure
        /\ (reply.front = "rest" => reply.status = 401)
        /\ (reply.front = "mcp" =>
               reply.raised \/ reply.route = "authenticate")

\* what holds of C17: the failure is named in the reply, with status 401 on
\* /auth and status 500 on the other routes, and no request calls
\* WeReadClient(...) more than once
C17_SurfacedOnce ==
    [][/\ constructed' <= constructed + 1
       /\ ConstructionFailed' =>
             /\ NamesAuthFailure'
             /\ (reply'.front = "rest" =>
                    reply'.status = IF reply'.route = "/auth" THEN 401
                                    ELSE 500)
             /\ (reply'.front = "mcp" =>
                    reply'.raised \/ reply'.route = "authenticate")]_vars

-----------------------------------------------------------------------------
(* The cache of the tools' front end.                                      *)

\* the cookie the request of the reply was served with
ServedCookie(r) == IF r.cookie # <<>> THEN r.cookie ELSE DEFAULT_COOKIE

\* the reply is a tool's
IsToolReply(r) == "front" \in DOMAIN r /\ r.front = "mcp"

\* C19: over the tools served one after the other, every entry of the
\* cache holds a client constructed with the entry's cookie and a
\* successful construction puts its client under its cookie; a failed
\* construction, and a call with no cookie and no default, leave the cache
\* as it was; no entry is ever removed or replaced; and a call with a
\* cached cookie returns the cached instance without constructing.
C19_CacheEntries ==
    [][/\ \A e \in client_cache : e \in client_cache'
       /\ \A e, f \in client_cache' : e.cookie = f.cookie => e = f
       /\ \A e \in client_cache' :
             /\ e.cookie # <<>>
             /\ e.client.cookie = e.cookie
             /\ e.client.id \in 1..constructed'
       /\ IsToolReply(reply') =>
             LET cookie == ServedCookie(reply')
                 hit    == \E e \in client_cache : e.cookie = cookie
             IN  /\ hit =>
                       /\ constructed' = constructed
                       /\ client_cache' = client_cache
                       /\ IsValue(reply'.client)
                       /\ [cookie |-> cookie, client |-> reply'.client.value]
                              \in client_cache
                 /\ IsRaised(reply'.client) => client_cache' = client_cache
                 /\ cookie = <<>> =>
                       /\ IsRaised(reply'.client)
                       /\ constructed' = constructed
                 /\ (~hit /\ IsValue(reply'.client)) =>
                       /\ constructed' = constructed + 1
                       /\ reply'.client.value.id = constructed'
                       /\ client_cache' = client_cache \cup
                              {[cookie |-> cookie,
                                client |-> reply'.client.value]}]_vars

\* C19 witness: two cookies are cached after two constructions, and the
\* last call, with the cookie cached first, was given the first instance
C19_Witness ==
    /\ Cardinality(client_cache) = 2
    /\ constructed = 2
    /\ IsToolReply(reply)
    /\ IsValue(reply.client)
    /\ reply.client.value.id = 1
    /\ [cookie |-> ServedCookie(reply), client |-> reply.client.value]
           \in client_cache

\* C19 witness of a failure: a construction was tried for a cookie that is
\* not cached, it failed, and the cache holds the other cookie only
C19_WitnessFailed ==
    /\ IsToolReply(reply)
    /\ reply.client = Raised("Failed to authenticate with WeRead")
    /\ Cardinality(client_cache) = 1
    /\ \A e \in client_cache : e.cookie # ServedCookie(reply)
    /\ constructed = 2

-----------------------------------------------------------------------------
(* get_weread_client of mcp/server.py, step by step, for calls that run    *)
(* side by side (tools served on threads): the lookup of line 51, the      *)
(* construction of line 55, which waits for the probe's answer, and the    *)
(* store of line 56 are separate steps.                                    *)

NoInstance == [none |-> TRUE]

\* caller p goes on, to pc with client
Goes(p, next_pc, cookie, c) ==
    callers' = [callers EXCEPT ![p] = [pc |-> next_pc, cookie |-> cookie,
                                       client |-> c]]

\* lines 45-48: the cookie the call works with; no cookie raises
Enter(p) ==
    /\ callers[p].pc = "idle"
    /\ \E arg \in CookieArgs :
          LET cookie == OrDefault(arg)
          IN  Goes(p, IF cookie = <<>> THEN "raised" ELSE "lookup",
                   cookie, NoInstance)
    /\ UNCHANGED <<DEFAULT_COOKIE, client_cache, constructed, reply>>
    /\ UNCHANGED clientVars
    /\ UNCHANGED codecVars
    /\ UNCHANGED formatVars

\* lines 51-52: a cached client is returned
Lookup(p) ==
    /\ callers[p].pc = "lookup"
    /\ IF Cached(callers[p].cookie)
       THEN Goes(p, "returned", callers[p].cookie,
                 CacheGet(callers[p].cookie))
       ELSE Goes(p, "construct", callers[p].cookie, NoInstance)
    /\ UNCHANGED <<DEFAULT_COOKIE, client_cache, constructed, reply>>
    /\ UNCHANGED clientVars
    /\ UNCHANGED codecVars
    /\ UNCHANGED formatVars

\* line 55, and lines 58-59 when the constructor raises
ConstructClient(p) ==
    /\ callers[p].pc = "construct"
    /\ \E o \in NewClient(callers[p].cookie) :
          IF IsValue(o)
          THEN Goes(p, "store", callers[p].cookie, o.value)
          ELSE Goes(p, "raised", callers[p].cookie, NoInstance)
    /\ constructed' = constructed + 1
    /\ UNCHANGED <<DEFAULT_COOKIE, client_cache, reply>>
    /\ UNCHANGED clientVars
    /\ UNCHANGED codecVars
    /\ UNCHANGED formatVars

\* lines 56-57: the client is stored and returned
Store(p) ==
    /\ callers[p].pc = "store"
    /\ client_cache' = CachePut(callers[p].cookie, callers[p].client)
    /\ Goes(p, "returned", callers[p].cookie, callers[p].client)
    /\ UNCHANGED <<DEFAULT_COOKIE, constructed, reply>>
    /\ UNCHANGED clientVars
    /\ UNCHANGED codecVars
    /\ UNCHANGED formatVars

InitRace ==
    /\ ClientIdle
    /\ CodecIdle
    /\ DEFAULT_COOKIE \in DefaultCookies
    /\ client_cache = {}
    /\ constructed = 0
    /\ reply = [none |-> TRUE]
    /\ callers = [p \in 1..NumCallers |->
                     [pc |-> "idle", cookie |-> <<>>, client |-> NoInstance]]
    /\ FormatIdle

NextRace ==
    \E p \in 1..NumCallers :
        \/ Enter(p)
        \/ Lookup(p)
        \/ ConstructClient(p)
        \/ Store(p)

\* NumCallers calls of get_weread_client, their steps interleaved
SpecRace == InitRace /\ [][NextRace]_vars

\* caller p holds a client: one it constructed, or one it was given
Holds(p) == callers[p].pc \in {"store", "returned"}

\* C20 (as claimed): when calls of get_weread_client with one cookie
\* interleave, at most one client is constructed for the cookie and all
\* the callers get the same instance.
C20_OneClientPerCookie ==
    \A p, q \in DOMAIN callers :
        (Holds(p) /\ Holds(q) /\ callers[p].cookie = callers[q].cookie)
            => callers[p].client = callers[q].client

\* what holds of C20: the callers of one cookie that found it cached get
\* the instance that is in the cache when they look
C20_CachedIsShared ==
    [][\A p \in DOMAIN callers :
          (callers[p].pc = "lookup" /\ callers'[p].pc = "returned") =>
              [cookie |-> callers[p].cookie, client |-> callers'[p].client]
                  \in client_cache]_vars

-----------------------------------------------------------------------------
(* format_highlights (src/weread/mcp/utils.py, lines 124-148) and the tool *)
(* format_book_highlights (src/weread/mcp/server.py, lines 272-311).       *)
(* Texts are sequences of code points; 34 is the double quote, 32 a        *)
(* space, 45 "-", 10 a newline.  The limit max_highlights is None or an    *)
(* integer.                                                                *)

\* lists of bookmarks are enumerated up to this length
MaxHighlightItems == 2
\* limits are enumerated from -1 up to this one
MaxHighlights == 3

\* line 137: "No highlights found."
NoHighlightsFound ==
    <<78, 111, 32, 104, 105, 103, 104, 108, 105, 103, 104, 116, 115, 32,
      102, 111, 117, 110, 100, 46>>

\* server.py lines 302-303: "Unknown"
Unknown ==
    <<85, 110, 107, 110, 111, 119, 110>>

\* server.py line 304: "# Highlights from "
HeaderFrom ==
    <<35, 32, 72, 105, 103, 104, 108, 105, 103, 104, 116, 115, 32, 102,
      114, 111, 109, 32>>

\* server.py line 304: " by "
HeaderBy ==
    <<32, 98, 121, 32>>

\* server.py line 306: "# Highlights for book ID: "
HeaderForId ==
    <<35, 32, 72, 105, 103, 104, 108, 105, 103, 104, 116, 115, 32, 102,
      111, 114, 32, 98, 111, 111, 107, 32, 73, 68, 58, 32>>

\* the bookmarks a list is made of: "x" of chapter "c" and chapterUid 2,
\* "y" of chapterUid 1 without a chapter title, and one with neither text
\* nor title
FormatBookmarks ==
    {[bookmarkId |-> "m", markText |-> <<120>>, chapterTitle |-> <<99>>,
      chapterUid |-> 2],
     [bookmarkId |-> "m", markText |-> <<121>>, chapterUid |-> 1],
     [bookmarkId |-> "m"]}

\* the limits: None, and the integers from -1
Limits ==
    {[none |-> TRUE]} \cup {[int |-> k] : k \in (0 - 1)..MaxHighlights}

\* the book identifiers the tool is asked for: "b1" and "b9"
FormatBookIds == {<<98, 49>>, <<98, 57>>}

\* the upstream's book list: the book "b1" with title "T" and author "A",
\* or with a title only
FormatBooks ==
    {<<[sort |-> 1,
        book |-> [bookId |-> <<98, 49>>, title |-> <<84>>,
                  author |-> <<65>>]]>>,
     <<[sort |-> 1, book |-> [bookId |-> <<98, 49>>, title |-> <<84>>]]>>}

\* what the upstream answers the tool when the book's bookmarks are bms:
\* a transport failure, a non-success status, the bookmarks, and the
\* bookmarks with a book list
FormatResponses(bms) ==
    {[failed |-> TRUE],
     [ok |-> FALSE, json |-> [errcode |-> 0 - 2012]],
     [ok |-> TRUE, json |-> [synckey |-> 0, updated |-> bms]]}
    \cup {[ok |-> TRUE, json |-> [synckey |-> 0, updated |-> bms,
                                  books |-> b]] : b \in FormatBooks}

\* line 139: if max_highlights
Truthy(limit) == "int" \in DOMAIN limit /\ limit.int # 0

\* s[:k]
Slice(s, k) ==
    IF k >= 0 THEN SubSeq(s, 1, Min(k, Len(s)))
    ELSE IF Len(s) + k > 0 THEN SubSeq(s, 1, Len(s) + k) ELSE <<>>

\* lines 144-146: the line of one bookmark
FormatLine(bm) ==
    <<34>> \o Get(bm, "markText", <<>>) \o <<34, 32, 45, 32>>
           \o Get(bm, "chapterTitle", <<>>)

\* "\n".join(lines)
RECURSIVE Join(_)
Join(lines) ==
    IF lines = <<>> THEN <<>>
    ELSE IF Len(lines) = 1 THEN lines[1]
    ELSE lines[1] \o <<10>> \o Join(Tail(lines))

\* format_highlights, lines 124-148
format_highlights(bms, limit) ==
    IF bms = <<>> THEN NoHighlightsFound
    ELSE LET kept == IF Truthy(limit) THEN Slice(bms, limit.int) ELSE bms
         IN  Join([k \in 1..Len(kept) |-> FormatLine(kept[k])])

\* server.py line 292: the entry is the book asked for
IsBook(entry, id) ==
    /\ "book" \in DOMAIN entry
    /\ "bookId" \in DOMAIN entry.book
    /\ entry.book.bookId = id

\* server.py lines 288-306: the heading, from the first entry of the book
\* list that is the book asked for, or from the identifier
Heading(books, id) ==
    IF \E k \in 1..Len(books) : IsBook(books[k], id)
    THEN LET book_details ==
                 books[CHOOSE k \in 1..Len(books) :
                           /\ IsBook(books[k], id)
                           /\ \A j \in 1..(k - 1) : ~IsBook(books[j], id)].book
         IN  HeaderFrom \o Get(book_details, "title", Unknown)
                        \o HeaderBy \o Get(book_details, "author", Unknown)
                        \o <<10, 10>>
    ELSE HeaderForId \o id \o <<10, 10>>

\* x or []
OrEmpty(outcome) == IF IsValue(outcome) THEN outcome.value ELSE <<>>

\* server.py lines 285-311: what the tool answers once it has its client
FormatBookHighlightsReply(arg, got, id, limit) ==
    LET books == get_notebooklist(upstream)
        bms   == get_bookmark_list(upstream)
        tool  == "format_book_highlights"
    IN  IF IsRaised(books) THEN ToolReply(tool, arg, got, TRUE, books.raised)
        ELSE IF IsRaised(bms) THEN ToolReply(tool, arg, got, TRUE, bms.raised)
        ELSE ToolReply(tool, arg, got, FALSE, "")
             @@ [book_id |-> id,
                 text    |-> Heading(OrEmpty(books), id)
                                 \o format_highlights(OrEmpty(bms), limit)]

\* format_highlights(bookmarks, max_highlights)
FormatHighlights ==
    /\ formatted = [none |-> TRUE]
    /\ formatted' = [value |-> format_highlights(bookmarks, max_highlights)]
    /\ UNCHANGED <<bookmarks, max_highlights>>
    /\ UNCHANGED clientVars
    /\ UNCHANGED codecVars
    /\ UNCHANGED frontVars

\* server.py lines 272-311: the tool format_book_highlights, served once
ToolFormatBookHighlights ==
    /\ reply = [none |-> TRUE]
    /\ \E arg \in CookieArgs, id \in FormatBookIds :
          \E g \in McpGetClient(arg) :
             ToolServed(IF IsRaised(g.outcome)
                        THEN ToolReply("format_book_highlights", arg,
                                       g.outcome, TRUE, g.outcome.raised)
                        ELSE FormatBookHighlightsReply(arg, g.outcome, id,
                                                       max_highlights),
                        g)

InitFormat ==
    /\ bookmarks \in SeqsUpTo(FormatBookmarks, MaxHighlightItems)
    /\ max_highlights \in Limits
    /\ formatted = [none |-> TRUE]
    /\ upstream \in FormatResponses(bookmarks)
    /\ client = NoClient
    /\ made = NoCall
    /\ call = NoCall
    /\ CodecIdle
    /\ DEFAULT_COOKIE \in DefaultCookies
    /\ client_cache = {}
    /\ constructed = 0
    /\ reply = [none |-> TRUE]
    /\ callers = <<>>

NextFormat == FormatHighlights \/ ToolFormatBookHighlights

\* format_highlights called on a list, and the tool over the same list
\* sent by the upstream
SpecFormat == InitFormat /\ [][NextFormat]_vars

-----------------------------------------------------------------------------
(* The limit of format_highlights.                                         *)

\* the first n entries of s, all of them when s has fewer
FirstN(s, n) == SubSeq(s, 1, Min(n, Len(s)))

\* the highlight lines of the bookmarks bms, one after the other
HighlightLines(bms) == Join([k \in 1..Len(bms) |-> FormatLine(bms[k])])

\* how many lines a text has, "" having none
LineCount(text) ==
    IF text = <<>> THEN 0
    ELSE 1 + Cardinality({k \in 1..Len(text) : text[k] = 10})

\* text ends with tail
EndsWith(text, tail) ==
    /\ Len(text) >= Len(tail)
    /\ SubSeq(text, Len(text) - Len(tail) + 1, Len(text)) = tail

\* the limit is an integer from 0
IsLimit(limit) == "int" \in DOMAIN limit /\ limit.int >= 0

\* the tool returned a text
ToolFormatted == "text" \in DOMAIN reply

\* the sorted bookmark list the tool formats
SortedBookmarks == OrEmpty(get_bookmark_list(upstream))

\* C21 (as claimed): for every integer max_highlights >= 0,
\* format_highlights and the tool format_book_highlights give the lines of
\* the first max_highlights entries of the (sorted) bookmark list, in
\* order and no more, so none for 0; and "No highlights found." when the
\* list is empty.
C21_AtMostMax ==
    /\ IsValue(formatted) =>
          IF bookmarks = <<>> THEN formatted.value = NoHighlightsFound
          ELSE IsLimit(max_highlights) =>
                  /\ formatted.value =
                         HighlightLines(FirstN(bookmarks, max_highlights.int))
                  /\ LineCount(formatted.value) <= max_highlights.int
    /\ ToolFormatted =>
          IF SortedBookmarks = <<>>
          THEN EndsWith(reply.text, <<10, 10>> \o NoHighlightsFound)
          ELSE IsLimit(max_highlights) =>
                  EndsWith(reply.text,
                           <<10, 10>> \o
                           HighlightLines(FirstN(SortedBookmarks,
                                                 max_highlights.int)))

\* what holds of C21: a limit of 1 or more is kept, and a limit of 0, like
\* None, keeps every entry
C21_PositiveMax ==
    /\ IsValue(formatted) =>
          IF bookmarks = <<>> THEN formatted.value = NoHighlightsFound
          ELSE /\ (IsLimit(max_highlights) /\ max_highlights.int >= 1) =>
                      /\ formatted.value =
                             HighlightLines(FirstN(bookmarks,
                                                   max_highlights.int))
                      /\ LineCount(formatted.value) <= max_highlights.int
               /\ (max_highlights \in {[none |-> TRUE], [int |-> 0]}) =>
                      formatted.value = HighlightLines(bookmarks)
    /\ ToolFormatted =>
          IF SortedBookmarks = <<>>
          THEN EndsWith(reply.text, <<10, 10>> \o NoHighlightsFound)
          ELSE /\ (IsLimit(max_highlights) /\ max_highlights.int >= 1) =>
                      EndsWith(reply.text,
                               <<10, 10>> \o
                               HighlightLines(FirstN(SortedBookmarks,
                                                     max_highlights.int)))
               /\ (max_highlights \in {[none |-> TRUE], [int |-> 0]}) =>
                      EndsWith(reply.text,
                               <<10, 10>> \o HighlightLines(SortedBookmarks))

\* a limit of 1 was kept by the tool: of the two bookmarks the upstream
\* sent, the one that sorts first is the only line
C21_PositiveMaxReached ==
    /\ ToolFormatted
    /\ max_highlights = [int |-> 1]
    /\ Len(bookmarks) = 2
    /\ bookmarks[1].bookmarkId = "m"
    /\ "chapterUid" \in DOMAIN bookmarks[1]
    /\ bookmarks[1].chapterUid = 2
    /\ "chapterUid" \in DOMAIN bookmarks[2]
    /\ bookmarks[2].chapterUid = 1
    /\ EndsWith(reply.text, <<10, 10, 34, 121, 34, 32, 45, 32>>)

=============================================================================
